---- MODULE Spec2Model ----
(***************************************************************************)
(* Model of two parts of the repository:                                   *)
(*   - the ORT-format round-trip test (SaveAndCompareModels and the        *)
(*     equivalence checker CompareGraphAndSessionState with its helpers    *)
(*     CompareTensors, CompareTypeProtos, CompareValueInfos);              *)
(*   - the CPU loss kernels SoftmaxCrossEntropyLoss and                    *)
(*     SoftmaxCrossEntropyLossGrad of cross_entropy.cc.                    *)
(* gtest semantics: a failed ASSERT_* records a failure and returns from   *)
(* the function that contains it (and from that function only); a failed   *)
(* EXPECT_* records a failure and goes on.                                 *)
(***************************************************************************)
EXTENDS Integers, Sequences, FiniteSets, TLC

VARIABLES
    pc,                \* position of the test body / of the checker
    session_object_1,  \* first session:  [inputs, nodes, initialized_tensors], in the test also state and initializers
    session_object_2,  \* second session: [inputs, nodes, initialized_tensors]
    todo,              \* initializer names of i1 the loop has not visited yet
    cursor,            \* index of the next graph input / node to compare
    failures,          \* the steps of the checker that reported a mismatch
    compared,          \* number of comparison rounds the checker has performed
    files,             \* the file system: file name -> content
    kernel,            \* the loss kernel's invocation: inputs, position, outputs
    session_object,    \* the session of RunOrtModel
    fetches,           \* the outputs RunOrtModel fetched
    calls              \* the operations invoked on the sessions of the test, in order, with their status

vars ==
    <<pc, session_object_1, session_object_2, todo, cursor, failures, compared, files, kernel,
      session_object, fetches, calls>>

(***************************************************************************)
(* Bounds of the model.                                                    *)
(***************************************************************************)
MaxDepth == 1      \* nesting depth of sequence/map type descriptors
MaxDims == 2       \* dimensions of a tensor type descriptor's shape

(***************************************************************************)
(* TensorShapeProto.Dimension: a oneof {dim_value, dim_param}.  The        *)
(* getters return the default (0, "") when the alternative is not set.     *)
(***************************************************************************)
DimValue(v) == [has_dim_value |-> TRUE, dim_value |-> v, has_dim_param |-> FALSE, dim_param |-> ""]

DimParam(p) == [has_dim_value |-> FALSE, dim_value |-> 0, has_dim_param |-> TRUE, dim_param |-> p]

DimNotSet == [has_dim_value |-> FALSE, dim_value |-> 0, has_dim_param |-> FALSE, dim_param |-> ""]

DimProtos == {DimValue(0), DimValue(2), DimParam("N"), DimNotSet}

RECURSIVE SeqsUpTo(_, _)
SeqsUpTo(S, n) ==
    IF n = 0 THEN {<<>>}
    ELSE LET shorter == SeqsUpTo(S, n - 1)
         IN shorter \cup {Append(s, x) : s \in {t \in shorter : Len(t) = n - 1}, x \in S}

(***************************************************************************)
(* TypeProto: denotation plus a oneof value_case.  Every descriptor is a   *)
(* record of the same fields; the fields of the variants that are not      *)
(* populated hold the protobuf defaults.                                   *)
(***************************************************************************)
Denotations == {"", "IMAGE"}

ElemTypes == {"float", "string"}

KeyTypes == {"int64", "string"}

TypeNotSet(d) ==
    [denotation |-> d, value_case |-> "not_set", elem_type |-> "undefined",
     dim |-> <<>>, key_type |-> "undefined", sub |-> <<>>]

TensorType(d, e, shape) == [TypeNotSet(d) EXCEPT !.value_case = "tensor_type", !.elem_type = e, !.dim = shape]

SparseTensorType(d, e) == [TypeNotSet(d) EXCEPT !.value_case = "sparse_tensor_type", !.elem_type = e]

OpaqueType(d) == [TypeNotSet(d) EXCEPT !.value_case = "opaque_type"]

SequenceType(d, t) == [TypeNotSet(d) EXCEPT !.value_case = "sequence_type", !.sub = <<t>>]

MapType(d, k, t) == [TypeNotSet(d) EXCEPT !.value_case = "map_type", !.key_type = k, !.sub = <<t>>]

has_tensor_type(t) == t.value_case = "tensor_type"

has_sequence_type(t) == t.value_case = "sequence_type"

has_map_type(t) == t.value_case = "map_type"

Wrappers(S) ==
    {SequenceType(d, t) : d \in Denotations, t \in S}
        \cup {MapType(d, k, t) : d \in Denotations, k \in KeyTypes, t \in S}

UnsupportedLeaves ==
    {TypeNotSet(d) : d \in Denotations} \cup {OpaqueType(d) : d \in Denotations}
        \cup {SparseTensorType(d, "float") : d \in Denotations}

\* tensors of every shape of up to MaxDims dimensions
ShapeLeaves == {TensorType("", "float", s) : s \in SeqsUpTo(DimProtos, MaxDims)}

\* the leaves that occur with every denotation and element type, and below a sequence or a map
NestedLeaves ==
    {TensorType(d, e, <<DimParam("N"), DimValue(2)>>) : d \in Denotations, e \in ElemTypes}
        \cup {TensorType("", "float", <<>>), SparseTensorType("", "float"), OpaqueType(""), TypeNotSet("")}

RECURSIVE Nested(_)
Nested(k) == IF k = 0 THEN NestedLeaves ELSE NestedLeaves \cup Wrappers(Nested(k - 1))

TypeProtos == ShapeLeaves \cup UnsupportedLeaves \cup Nested(MaxDepth)

(***************************************************************************)
(* CompareTypeProtos(left, right): TRUE iff the call records a failure.    *)
(***************************************************************************)
\* mutant: only the getters' values are compared, not which alternative is set
CompareDimsValuesOnly(left_dim, right_dim) ==
    IF left_dim.dim_value # right_dim.dim_value THEN TRUE
    ELSE left_dim.dim_param # right_dim.dim_param

CompareDims(left_dim, right_dim) ==
    IF left_dim.has_dim_value # right_dim.has_dim_value THEN TRUE
    ELSE IF left_dim.dim_value # right_dim.dim_value THEN TRUE
    ELSE IF left_dim.has_dim_param # right_dim.has_dim_param THEN TRUE
    ELSE left_dim.dim_param # right_dim.dim_param

CompareTensorTypes(left, right) ==
    IF left.elem_type # right.elem_type THEN TRUE
    ELSE IF Len(left.dim) # Len(right.dim) THEN TRUE
    ELSE \E i \in 1..Len(left.dim) : CompareDims(left.dim[i], right.dim[i])

\* mutant: an unsupported variant is skipped
UnsupportedTypeProtoSkipped(left, right) == FALSE

\* FAIL(): "We do not support SparseTensor and Opaque for now"
UnsupportedTypeProto(left, right) == TRUE

RECURSIVE CompareTypeProtos(_, _)
CompareTypeProtos(left, right) ==
    IF left.denotation # right.denotation THEN TRUE
    ELSE IF has_tensor_type(left) # has_tensor_type(right) THEN TRUE
    ELSE IF has_sequence_type(left) # has_sequence_type(right) THEN TRUE
    ELSE IF has_map_type(left) # has_map_type(right) THEN TRUE
    ELSE IF has_tensor_type(left) THEN CompareTensorTypes(left, right)
    ELSE IF has_sequence_type(left) THEN CompareTypeProtos(left.sub[1], right.sub[1])
    ELSE IF has_map_type(left) THEN
        IF left.key_type # right.key_type THEN TRUE
        ELSE CompareTypeProtos(left.sub[1], right.sub[1])
    ELSE UnsupportedTypeProto(left, right)

(***************************************************************************)
(* ValueInfoProto of a NodeArg and CompareValueInfos.                      *)
(***************************************************************************)
NodeArg(n, doc, t) == [name |-> n, doc_string |-> doc, type |-> t]

CompareValueInfos(left, right) ==
    IF left.name # right.name THEN TRUE
    ELSE IF left.doc_string # right.doc_string THEN TRUE
    ELSE CompareTypeProtos(left.type, right.type)

(***************************************************************************)
(* Tensor: shape, element type and a buffer (bytes for the fixed-size      *)
(* element types, strings for string tensors), and CompareTensors.         *)
(***************************************************************************)
MaxElems == 2      \* elements of an initializer tensor

Bytes == {0, 1}

Strings == {"s", "t"}

RECURSIVE Size(_)
Size(dims) == IF dims = <<>> THEN 1 ELSE Head(dims) * Size(Tail(dims))

IsDataTypeString(t) == t.elem_type = "string"

ElementWidth(e) == IF e = "int16" THEN 2 ELSE 1

SizeInBytes(t) == Size(t.dims) * ElementWidth(t.elem_type)

Tensor(dims, e, data) == [dims |-> dims, elem_type |-> e, data |-> data]

TensorDims == {<<n>> : n \in 0..MaxElems} \cup {<<1, n>> : n \in 1..MaxElems}

RECURSIVE SeqsOfLen(_, _)
SeqsOfLen(S, n) == IF n = 0 THEN {<<>>} ELSE {Append(s, x) : s \in SeqsOfLen(S, n - 1), x \in S}

Tensors ==
    UNION {{Tensor(d, "int8", b) : b \in SeqsOfLen(Bytes, Size(d))} : d \in TensorDims}
        \cup UNION {{Tensor(d, "string", b) : b \in SeqsOfLen(Strings, Size(d))} : d \in TensorDims}
        \cup UNION {{Tensor(d, "int16", b) : b \in SeqsOfLen(Bytes, 2 * Size(d))} :
                        d \in {e \in TensorDims : Size(e) <= 1}}

\* memcmp(a, b, n): 0 iff the first n bytes agree, else the sign of the first difference
memcmp(a, b, n) ==
    IF \A i \in 1..n : a[i] = b[i] THEN 0
    ELSE LET first == CHOOSE i \in 1..n : a[i] # b[i] /\ \A j \in 1..(i - 1) : a[j] = b[j]
         IN IF a[first] < b[first] THEN -1 ELSE 1

\* mutant: memcmp is given the element count, not the size in bytes
CompareTensorsElementCount(left, right) ==
    IF left.dims # right.dims THEN TRUE
    ELSE IF left.elem_type # right.elem_type THEN TRUE
    ELSE IF IsDataTypeString(left) THEN \E i \in 1..Size(left.dims) : left.data[i] # right.data[i]
    ELSE memcmp(left.data, right.data, Size(left.dims)) # 0

\* mutant: the result of memcmp is asserted itself, not its being 0
CompareTensorsMemcmpResult(left, right) ==
    IF left.dims # right.dims THEN TRUE
    ELSE IF left.elem_type # right.elem_type THEN TRUE
    ELSE IF IsDataTypeString(left) THEN \E i \in 1..Size(left.dims) : left.data[i] # right.data[i]
    ELSE memcmp(left.data, right.data, SizeInBytes(left)) = 0

\* TRUE iff the call records a failure
CompareTensors(left, right) ==
    IF left.dims # right.dims THEN TRUE
    ELSE IF left.elem_type # right.elem_type THEN TRUE
    ELSE IF IsDataTypeString(left) THEN \E i \in 1..Size(left.dims) : left.data[i] # right.data[i]
    ELSE memcmp(left.data, right.data, SizeInBytes(left)) # 0

(***************************************************************************)
(* Graph and session state as the checker reads them.                      *)
(***************************************************************************)
Exists(node_arg) == node_arg.name # ""

AbsentArg == NodeArg("", "", TypeNotSet(""))

Session(inputs, nodes, tensors) == [inputs |-> inputs, nodes |-> nodes, initialized_tensors |-> tensors]

Range(f) == {f[x] : x \in DOMAIN f}

NodeArgs(graph) ==
    {a \in Range(graph.inputs) \cup UNION {Range(graph.nodes[n].outputs) : n \in DOMAIN graph.nodes} : Exists(a)}

\* a pointer is <<>> (nullptr) or <<object>>
nullptr == <<>>

\* Graph::GetNodeArg(name): pointer to the graph's NodeArg of that name
GetNodeArg(graph, name) ==
    IF \E a \in NodeArgs(graph) : a.name = name
    THEN <<CHOOSE a \in NodeArgs(graph) : a.name = name>>
    ELSE nullptr

\* Graph::GetNode(index): pointer to the node of that index
GetNode(graph, index) == IF index \in DOMAIN graph.nodes THEN <<graph.nodes[index]>> ELSE nullptr

\* mutant: an absent left slot is not checked against the right one
CompareOutputSlotLeftOnly(left_nodearg, right_nodearg) ==
    IF Exists(left_nodearg)
    THEN (left_nodearg.name # right_nodearg.name) \/ CompareValueInfos(left_nodearg, right_nodearg)
    ELSE FALSE

\* one output slot of the per-node loop; TRUE iff it records a failure
CompareOutputSlot(left_nodearg, right_nodearg) ==
    IF Exists(left_nodearg)
    THEN (left_nodearg.name # right_nodearg.name) \/ CompareValueInfos(left_nodearg, right_nodearg)
    ELSE Exists(right_nodearg)

(***************************************************************************)
(* CompareGraphAndSessionState, one action per assertion round.  A failed  *)
(* ASSERT in its own body returns ("returned"); a failure recorded inside  *)
(* a helper only ends the helper, and the loop goes on.                    *)
(***************************************************************************)
i1 == session_object_1.initialized_tensors

i2 == session_object_2.initialized_tensors

graph_1 == session_object_1

graph_2 == session_object_2

Report(failed, step) == IF failed THEN failures \cup {step} ELSE failures

CompareInitializerCount ==
    /\ pc = "compare"
    /\ compared' = compared + 1
    /\ IF Cardinality(DOMAIN i1) # Cardinality(DOMAIN i2)
       THEN /\ failures' = Report(TRUE, "initializers")
            /\ pc' = "returned"
            /\ todo' = {}
       ELSE /\ failures' = failures
            /\ pc' = "initializers"
            /\ todo' = DOMAIN i1
    /\ UNCHANGED <<files, kernel, session_object, fetches, calls, session_object_1, session_object_2, cursor>>

CompareInitializer ==
    /\ pc = "initializers"
    /\ \E name \in todo :
        /\ compared' = compared + 1
        /\ IF name \notin DOMAIN i2
           THEN /\ failures' = Report(TRUE, "initializers")
                /\ pc' = "returned"
                /\ todo' = {}
           ELSE /\ failures' = Report(CompareTensors(i1[name], i2[name]), "initializers")
                /\ pc' = pc
                /\ todo' = todo \ {name}
    /\ UNCHANGED <<files, kernel, session_object, fetches, calls, session_object_1, session_object_2, cursor>>

CompareInitializersEnd ==
    /\ pc = "initializers"
    /\ todo = {}
    /\ pc' = "inputs"
    /\ cursor' = 1
    /\ UNCHANGED <<files, kernel, session_object, fetches, calls, session_object_1, session_object_2, todo, failures, compared>>

CompareInput ==
    /\ pc = "inputs"
    /\ cursor <= Len(graph_1.inputs)
    /\ LET left == GetNodeArg(graph_1, graph_1.inputs[cursor].name)[1]
           right == GetNodeArg(graph_2, graph_1.inputs[cursor].name)
       IN /\ compared' = compared + 1
          /\ IF right = nullptr
             THEN /\ failures' = Report(TRUE, "inputs")
                  /\ pc' = "returned"
                  /\ cursor' = cursor
             ELSE /\ failures' = Report(CompareValueInfos(left, right[1]), "inputs")
                  /\ pc' = pc
                  /\ cursor' = cursor + 1
    /\ UNCHANGED <<files, kernel, session_object, fetches, calls, session_object_1, session_object_2, todo>>

CompareInputsEnd ==
    /\ pc = "inputs"
    /\ cursor > Len(graph_1.inputs)
    /\ pc' = "nodes"
    /\ cursor' = 0
    /\ UNCHANGED <<files, kernel, session_object, fetches, calls, session_object_1, session_object_2, todo, failures, compared>>

\* the nodes of graph_1 the loop has not visited yet (Nodes() iterates by index)
NodesLeft == {n \in DOMAIN graph_1.nodes : n >= cursor}

CompareNode ==
    /\ pc = "nodes"
    /\ NodesLeft # {}
    /\ LET index == CHOOSE n \in NodesLeft : \A m \in NodesLeft : n <= m
           left == graph_1.nodes[index]
           right == GetNode(graph_2, index)
       IN /\ compared' = compared + 1
          /\ IF right = nullptr
             THEN /\ failures' = Report(TRUE, "nodes")
                  /\ pc' = "returned"
                  /\ cursor' = cursor
             ELSE IF Len(left.outputs) # Len(right[1].outputs)
             THEN /\ failures' = Report(TRUE, "nodes")
                  /\ pc' = "returned"
                  /\ cursor' = cursor
             ELSE /\ failures' = Report(\E i \in 1..Len(left.outputs) :
                                            CompareOutputSlot(left.outputs[i], right[1].outputs[i]), "nodes")
                  /\ pc' = pc
                  /\ cursor' = index + 1
    /\ UNCHANGED <<files, kernel, session_object, fetches, calls, session_object_1, session_object_2, todo>>

CompareNodesEnd ==
    /\ pc = "nodes"
    /\ NodesLeft = {}
    /\ pc' = "done"
    /\ UNCHANGED <<files, kernel, session_object, fetches, calls, session_object_1, session_object_2, todo, cursor, failures, compared>>

CompareGraphAndSessionState ==
    \/ CompareInitializerCount
    \/ CompareInitializer
    \/ CompareInitializersEnd
    \/ CompareInput
    \/ CompareInputsEnd
    \/ CompareNode
    \/ CompareNodesEnd

HasFailure == failures # {}

(***************************************************************************)
(* The sessions the checker is applied to.                                 *)
(***************************************************************************)
NoFiles == <<>>

\* a session object that has not been constructed
NoSession == <<>>

NoFetches == <<>>

NoCalls == <<>>

NoKernel == [pc |-> "idle"]

BaseType == TensorType("", "float", <<DimParam("N"), DimValue(2)>>)

BaseInputs == <<NodeArg("x", "", BaseType)>>

Node(outputs) == [outputs |-> outputs]

BaseNodes == (0 :> Node(<<NodeArg("y", "", BaseType)>>))

BaseTensors == ("a" :> Tensor(<<1>>, "int8", <<1>>))

\* two sessions that differ at most in the type descriptor of graph input x
InitTypeProtos ==
    /\ pc = "compare"
    /\ \E left \in TypeProtos, right \in TypeProtos :
        /\ session_object_1 = Session(<<NodeArg("x", "", left)>>, BaseNodes, BaseTensors)
        /\ session_object_2 = Session(<<NodeArg("x", "", right)>>, BaseNodes, BaseTensors)
    /\ todo = {}
    /\ cursor = 0
    /\ failures = {}
    /\ compared = 0
    /\ files = NoFiles
    /\ kernel = NoKernel
    /\ session_object = NoSession
    /\ fetches = NoFetches
    /\ calls = NoCalls

SpecTypeProtos == InitTypeProtos /\ [][CompareGraphAndSessionState]_vars

MaxOutputs == 2    \* output slots of a node

StringType == TensorType("", "string", <<DimValue(2)>>)

\* two initializer maps over the names a and b
OtherTensors == {Tensor(<<2>>, "string", <<"s", "t">>), Tensor(<<2>>, "string", <<"s", "s">>)}

InitializerMaps ==
    UNION {{f \in [D -> Tensors \cup OtherTensors] : "b" \in D => f["b"] \in OtherTensors} : D \in SUBSET {"a", "b"}}

InitInitializers ==
    /\ pc = "compare"
    /\ \E left \in InitializerMaps, right \in InitializerMaps :
        /\ session_object_1 = Session(BaseInputs, BaseNodes, left)
        /\ session_object_2 = Session(BaseInputs, BaseNodes, right)
    /\ todo = {}
    /\ cursor = 0
    /\ failures = {}
    /\ compared = 0
    /\ files = NoFiles
    /\ kernel = NoKernel
    /\ session_object = NoSession
    /\ fetches = NoFetches
    /\ calls = NoCalls

SpecInitializers == InitInitializers /\ [][CompareGraphAndSessionState]_vars

\* the output slots of a node: absent, or present with a name and a type
OutputArgs ==
    {AbsentArg, NodeArg("y", "", BaseType), NodeArg("y", "", StringType), NodeArg("z", "", BaseType),
     NodeArg("u", "", SparseTensorType("", "float"))}

\* a NodeArg name is declared once in a graph
DistinctNames(outputs) ==
    \A i, j \in 1..Len(outputs) : (i # j /\ Exists(outputs[i])) => outputs[i].name # outputs[j].name

OutputLists == {o \in SeqsUpTo(OutputArgs, MaxOutputs) : DistinctNames(o)}

NodeMaps ==
    {(0 :> Node(o)) : o \in OutputLists} \cup {(1 :> Node(o)) : o \in OutputLists}
        \cup {(0 :> Node(o)) @@ (1 :> Node(<<NodeArg("v", "", BaseType)>>)) : o \in OutputLists}

InitNodes ==
    /\ pc = "compare"
    /\ \E left \in NodeMaps, right \in NodeMaps :
        /\ session_object_1 = Session(BaseInputs, left, BaseTensors)
        /\ session_object_2 = Session(BaseInputs, right, BaseTensors)
    /\ todo = {}
    /\ cursor = 0
    /\ failures = {}
    /\ compared = 0
    /\ files = NoFiles
    /\ kernel = NoKernel
    /\ session_object = NoSession
    /\ fetches = NoFetches
    /\ calls = NoCalls

SpecNodes == InitNodes /\ [][CompareGraphAndSessionState]_vars

\* graph inputs, the second one backed by initializer a
InputLists ==
    {<<>>, BaseInputs, <<NodeArg("x", "doc", BaseType)>>, <<NodeArg("a", "", StringType)>>,
     <<NodeArg("x", "", BaseType), NodeArg("a", "", StringType)>>,
     <<NodeArg("x", "", BaseType), NodeArg("a", "", BaseType)>>,
     <<NodeArg("a", "", StringType), NodeArg("x", "", BaseType)>>}

InitInputs ==
    /\ pc = "compare"
    /\ \E left \in InputLists, right \in InputLists :
        /\ session_object_1 = Session(left, BaseNodes, BaseTensors)
        /\ session_object_2 = Session(right, BaseNodes, BaseTensors)
    /\ todo = {}
    /\ cursor = 0
    /\ failures = {}
    /\ compared = 0
    /\ files = NoFiles
    /\ kernel = NoKernel
    /\ session_object = NoSession
    /\ fetches = NoFetches
    /\ calls = NoCalls

\* the checker on pairs of sessions that differ in their inputs, nodes or initializers
SpecCompare == (InitInputs \/ InitNodes \/ InitInitializers) /\ [][CompareGraphAndSessionState]_vars

(***************************************************************************)
(* The ORT format.  The encoder and the decoder are not part of the test   *)
(* file; they are modelled from their contract (a lossless projection of   *)
(* the graph and its initializers) as a writer of a flat sequence of       *)
(* tokens with explicit counts and a reader that consumes it from the      *)
(* front.  A reader returns [ok, value, rest].                             *)
(***************************************************************************)
RECURSIVE Flatten(_)
Flatten(ss) == IF Len(ss) = 0 THEN <<>> ELSE Head(ss) \o Flatten(Tail(ss))

RECURSIVE SupportedTypeProto(_)
SupportedTypeProto(t) ==
    IF has_tensor_type(t) THEN TRUE
    ELSE IF has_sequence_type(t) \/ has_map_type(t) THEN SupportedTypeProto(t.sub[1])
    ELSE FALSE

EncodeDim(d) ==
    IF d.has_dim_value THEN <<"dim_value", d.dim_value>>
    ELSE IF d.has_dim_param THEN <<"dim_param", d.dim_param>>
    ELSE <<"dim_not_set">>

RECURSIVE EncodeTypeProto(_)
EncodeTypeProto(t) ==
    <<t.denotation, t.value_case>> \o
        (IF has_tensor_type(t)
         THEN <<t.elem_type, Len(t.dim)>> \o Flatten([i \in 1..Len(t.dim) |-> EncodeDim(t.dim[i])])
         ELSE IF has_sequence_type(t) THEN EncodeTypeProto(t.sub[1])
         ELSE IF has_map_type(t) THEN <<t.key_type>> \o EncodeTypeProto(t.sub[1])
         ELSE <<>>)

\* a NodeArg; an absent optional output is its empty name alone
EncodeNodeArg(a) == IF Exists(a) THEN <<a.name, a.doc_string>> \o EncodeTypeProto(a.type) ELSE <<a.name>>

EncodeNodeArgs(args) == <<Len(args)>> \o Flatten([i \in 1..Len(args) |-> EncodeNodeArg(args[i])])

\* the nodes in the order of their indices, each with its index
RECURSIVE EncodeNodes(_, _)
EncodeNodes(nodes, pending) ==
    IF pending = {} THEN <<>>
    ELSE LET index == CHOOSE n \in pending : \A m \in pending : n <= m
         IN <<index>> \o EncodeNodeArgs(nodes[index].outputs) \o EncodeNodes(nodes, pending \ {index})

\* a tensor: its shape, its element type and its bytes or strings
EncodeTensor(t) == <<Len(t.dims)>> \o t.dims \o <<t.elem_type, Len(t.data)>> \o t.data

EncodeInitializers(initializers) ==
    <<Len(initializers)>> \o
        Flatten([i \in 1..Len(initializers) |-> <<initializers[i].name>> \o EncodeTensor(initializers[i].tensor)])

Graph(inputs, nodes, initializers) == [inputs |-> inputs, nodes |-> nodes, initializers |-> initializers]

Serialize(graph) ==
    <<"ORTM">> \o EncodeNodeArgs(graph.inputs)
        \o <<Cardinality(DOMAIN graph.nodes)>> \o EncodeNodes(graph.nodes, DOMAIN graph.nodes)
        \o EncodeInitializers(graph.initializers)

Parsed(value, rest) == [ok |-> TRUE, value |-> value, rest |-> rest]

ParseError == [ok |-> FALSE, value |-> <<>>, rest |-> <<>>]

Drop(blob, k) == SubSeq(blob, k + 1, Len(blob))

\* a value put in front of the values a reader returned
ConsParsed(value, others) ==
    IF ~others.ok THEN ParseError ELSE Parsed(<<value>> \o others.value, others.rest)

DecodeDim(blob) ==
    IF Len(blob) < 1 THEN ParseError
    ELSE IF blob[1] = "dim_not_set" THEN Parsed(DimNotSet, Drop(blob, 1))
    ELSE IF Len(blob) < 2 THEN ParseError
    ELSE IF blob[1] = "dim_value" THEN Parsed(DimValue(blob[2]), Drop(blob, 2))
    ELSE IF blob[1] = "dim_param" THEN Parsed(DimParam(blob[2]), Drop(blob, 2))
    ELSE ParseError

RECURSIVE DecodeDims(_, _)
\* the other dimensions, once the first one has been read
DecodeDimsAfter(first, count) ==
    IF ~first.ok THEN ParseError ELSE ConsParsed(first.value, DecodeDims(first.rest, count - 1))

DecodeDims(blob, count) ==
    IF count = 0 THEN Parsed(<<>>, blob) ELSE DecodeDimsAfter(DecodeDim(blob), count)

DecodedTensorType(denotation, elem_type, dims) ==
    IF ~dims.ok THEN ParseError ELSE Parsed(TensorType(denotation, elem_type, dims.value), dims.rest)

DecodedSequenceType(denotation, elem) ==
    IF ~elem.ok THEN ParseError ELSE Parsed(SequenceType(denotation, elem.value), elem.rest)

DecodedMapType(denotation, key_type, val) ==
    IF ~val.ok THEN ParseError ELSE Parsed(MapType(denotation, key_type, val.value), val.rest)

RECURSIVE DecodeTypeProto(_)
DecodeTypeProto(blob) ==
    IF Len(blob) < 2 THEN ParseError
    ELSE IF blob[2] = "tensor_type"
    THEN IF Len(blob) < 4 THEN ParseError
         ELSE DecodedTensorType(blob[1], blob[3], DecodeDims(Drop(blob, 4), blob[4]))
    ELSE IF blob[2] = "sequence_type" THEN DecodedSequenceType(blob[1], DecodeTypeProto(Drop(blob, 2)))
    ELSE IF blob[2] = "map_type"
    THEN IF Len(blob) < 3 THEN ParseError
         ELSE DecodedMapType(blob[1], blob[3], DecodeTypeProto(Drop(blob, 3)))
    ELSE ParseError

DecodedNodeArg(name, doc_string, type) ==
    IF ~type.ok THEN ParseError ELSE Parsed(NodeArg(name, doc_string, type.value), type.rest)

DecodeNodeArg(blob) ==
    IF Len(blob) < 1 THEN ParseError
    ELSE IF blob[1] = "" THEN Parsed(AbsentArg, Drop(blob, 1))
    ELSE IF Len(blob) < 2 THEN ParseError
    ELSE DecodedNodeArg(blob[1], blob[2], DecodeTypeProto(Drop(blob, 2)))

RECURSIVE DecodeNodeArgList(_, _)
DecodeNodeArgListAfter(first, count) ==
    IF ~first.ok THEN ParseError ELSE ConsParsed(first.value, DecodeNodeArgList(first.rest, count - 1))

DecodeNodeArgList(blob, count) ==
    IF count = 0 THEN Parsed(<<>>, blob) ELSE DecodeNodeArgListAfter(DecodeNodeArg(blob), count)

DecodeNodeArgs(blob) == IF Len(blob) < 1 THEN ParseError ELSE DecodeNodeArgList(Drop(blob, 1), blob[1])

\* a node put at its index into the map index -> node a reader returned
InsertParsed(index, node, others) ==
    IF ~others.ok THEN ParseError ELSE Parsed((index :> node) @@ others.value, others.rest)

RECURSIVE DecodeNodeList(_, _)
DecodeNodeListAfter(index, outputs, count) ==
    IF ~outputs.ok THEN ParseError
    ELSE InsertParsed(index, Node(outputs.value), DecodeNodeList(outputs.rest, count - 1))

\* count nodes, each an index and its outputs
DecodeNodeList(blob, count) ==
    IF count = 0 THEN Parsed(<<>>, blob)
    ELSE IF Len(blob) < 1 THEN ParseError
    ELSE DecodeNodeListAfter(blob[1], DecodeNodeArgs(Drop(blob, 1)), count)

DecodeNodes(blob) == IF Len(blob) < 1 THEN ParseError ELSE DecodeNodeList(Drop(blob, 1), blob[1])

\* the data of a tensor whose shape and element type have been read
DecodeTensorData(blob, dims, elem_type) ==
    IF Len(blob) < 1 \/ Len(blob) < blob[1] + 1 THEN ParseError
    ELSE Parsed(Tensor(dims, elem_type, SubSeq(blob, 2, blob[1] + 1)), Drop(blob, blob[1] + 1))

DecodeTensor(blob) ==
    IF Len(blob) < 1 \/ Len(blob) < blob[1] + 2 THEN ParseError
    ELSE DecodeTensorData(Drop(blob, blob[1] + 2), SubSeq(blob, 2, blob[1] + 1), blob[blob[1] + 2])

RECURSIVE DecodeInitializerList(_, _)
DecodeInitializerListAfter(name, tensor, count) ==
    IF ~tensor.ok THEN ParseError
    ELSE ConsParsed([name |-> name, tensor |-> tensor.value], DecodeInitializerList(tensor.rest, count - 1))

DecodeInitializerList(blob, count) ==
    IF count = 0 THEN Parsed(<<>>, blob)
    ELSE IF Len(blob) < 1 THEN ParseError
    ELSE DecodeInitializerListAfter(blob[1], DecodeTensor(Drop(blob, 1)), count)

DecodeInitializers(blob) == IF Len(blob) < 1 THEN ParseError ELSE DecodeInitializerList(Drop(blob, 1), blob[1])

\* the graph, once its three parts have been read and nothing is left of the blob
DecodedGraph(inputs, nodes, initializers) ==
    IF ~initializers.ok THEN ParseError
    ELSE IF Len(initializers.rest) # 0 THEN ParseError
    ELSE Parsed(Graph(inputs, nodes, initializers.value), <<>>)

DeserializeInitializers(inputs, nodes) ==
    IF ~nodes.ok THEN ParseError ELSE DecodedGraph(inputs, nodes.value, DecodeInitializers(nodes.rest))

DeserializeNodes(inputs) ==
    IF ~inputs.ok THEN ParseError ELSE DeserializeInitializers(inputs.value, DecodeNodes(inputs.rest))

\* the graph of a blob, or a failure on a blob that is not a whole encoding
Deserialize(blob) ==
    IF Len(blob) < 1 THEN ParseError
    ELSE IF blob[1] # "ORTM" THEN ParseError
    ELSE DeserializeNodes(DecodeNodeArgs(Drop(blob, 1)))

(***************************************************************************)
(* InferenceSession: Load and Initialize, from their contract.             *)
(***************************************************************************)
\* every NodeArg the graph declares: its inputs and the outputs of its nodes
DeclaredArgs(graph) ==
    graph.inputs \o Flatten([k \in 1..Cardinality(DOMAIN graph.nodes) |->
        LET index == CHOOSE n \in DOMAIN graph.nodes : Cardinality({m \in DOMAIN graph.nodes : m < n}) = k - 1
        IN SelectSeq(graph.nodes[index].outputs, Exists)])

Unloaded ==
    [state |-> "Unloaded", inputs |-> <<>>, nodes |-> <<>>, initializers |-> <<>>, initialized_tensors |-> <<>>]

onnx_file == "testdata/ort_github_issue_4031.onnx"

ort_file == "ort_github_issue_4031.onnx.ort"

OnnxFile(graph) == [format |-> "ONNX", graph |-> graph, bytes |-> <<>>]

OrtFile(bytes) == [format |-> "ORT", graph |-> <<>>, bytes |-> bytes]

\* the format of a file: the configured one, else the one its name tells
ModelFormat(config, file_name) ==
    IF config # "" THEN config ELSE IF file_name = ort_file THEN "ORT" ELSE "ONNX"

\* the graph a file holds when it is read in a format
ReadModel(file, format) ==
    IF format # file.format THEN ParseError
    ELSE IF file.format = "ORT" THEN Deserialize(file.bytes)
    ELSE Parsed(file.graph, <<>>)

\* the session of a graph that was read: the unsupported variants are rejected
LoadGraph(parsed) ==
    IF ~parsed.ok THEN nullptr
    ELSE IF \E a \in Range(DeclaredArgs(parsed.value)) : ~SupportedTypeProto(a.type) THEN nullptr
    ELSE <<[Unloaded EXCEPT !.state = "Loaded", !.inputs = parsed.value.inputs,
                            !.nodes = parsed.value.nodes, !.initializers = parsed.value.initializers]>>

\* Load: <<session>>, or nullptr on a LoadError
Load(file_name, config) ==
    IF file_name \notin DOMAIN files THEN nullptr
    ELSE LoadGraph(ReadModel(files[file_name], ModelFormat(config, file_name)))

\* the validation of Initialize: every name resolves to exactly one declaration
DistinctArgs(args) == \A i, j \in 1..Len(args) : i # j => args[i].name # args[j].name

Resolvable(session) ==
    /\ DistinctArgs(DeclaredArgs(session))
    /\ \A i, j \in 1..Len(session.initializers) : i # j => session.initializers[i].name # session.initializers[j].name

\* the initializers of the session state, by name
InitializedTensors(initializers) ==
    [n \in {initializers[i].name : i \in 1..Len(initializers)} |->
        initializers[CHOOSE i \in 1..Len(initializers) : initializers[i].name = n].tensor]

\* Initialize: <<session, files>>, or nullptr on an InitializationError; the
\* graph and its initializers are written to optimized_model_filepath if set
Initialize(session, optimized_model_filepath) ==
    IF session.state # "Loaded" THEN nullptr
    ELSE IF ~Resolvable(session) THEN nullptr
    ELSE LET initialized == [session EXCEPT !.state = "Initialized",
                                            !.initialized_tensors = InitializedTensors(session.initializers)]
         IN IF optimized_model_filepath = "" THEN <<initialized, files>>
            ELSE <<initialized,
                   [f \in DOMAIN files \cup {optimized_model_filepath} |->
                        IF f = optimized_model_filepath
                        THEN OrtFile(Serialize(Graph(session.inputs, session.nodes, session.initializers)))
                        ELSE files[f]]>>

\* the record of an operation invoked on a session: the session is named as
\* the function that owns it names it, ok is the status the operation returned
Invoked(history, session, op, ok) == Append(history, [session |-> session, op |-> op, ok |-> ok])

(***************************************************************************)
(* SaveAndCompareModels(onnx_file, ort_file): a failed ASSERT_STATUS_OK    *)
(* returns from it.                                                        *)
(***************************************************************************)
\* lines 182-190
LoadOnnxModel ==
    /\ pc = "load"
    /\ LET loaded == Load(onnx_file, "")
       IN IF loaded = nullptr
          THEN /\ failures' = Report(TRUE, "Load")
               /\ calls' = Invoked(calls, "session_object", "Load", FALSE)
               /\ pc' = "returned"
               /\ UNCHANGED session_object_1
          ELSE /\ session_object_1' = loaded[1]
               /\ calls' = Invoked(calls, "session_object", "Load", TRUE)
               /\ pc' = "initialize"
               /\ UNCHANGED failures
    /\ UNCHANGED <<session_object_2, todo, cursor, compared, files, kernel, session_object, fetches>>

\* line 191: Initialize creates the .ort file
InitializeAndSave ==
    /\ pc = "initialize"
    /\ LET initialized == Initialize(session_object_1, ort_file)
       IN IF initialized = nullptr
          THEN /\ failures' = Report(TRUE, "Initialize")
               /\ calls' = Invoked(calls, "session_object", "Initialize", FALSE)
               /\ pc' = "returned"
               /\ UNCHANGED <<session_object_1, files>>
          ELSE /\ session_object_1' = initialized[1]
               /\ files' = initialized[2]
               /\ calls' = Invoked(calls, "session_object", "Initialize", TRUE)
               /\ pc' = "load_ort"
               /\ UNCHANGED failures
    /\ UNCHANGED <<session_object_2, todo, cursor, compared, kernel, session_object, fetches>>

\* lines 193-201: the second session loads the serialized version
LoadOrtModel ==
    /\ pc = "load_ort"
    /\ LET loaded == Load(ort_file, "ORT")
       IN IF loaded = nullptr
          THEN /\ failures' = Report(TRUE, "Load")
               /\ calls' = Invoked(calls, "session_object2", "Load", FALSE)
               /\ pc' = "returned"
               /\ UNCHANGED session_object_2
          ELSE /\ session_object_2' = loaded[1]
               /\ calls' = Invoked(calls, "session_object2", "Load", TRUE)
               /\ pc' = "initialize_ort"
               /\ UNCHANGED failures
    /\ UNCHANGED <<session_object_1, todo, cursor, compared, files, kernel, session_object, fetches>>

\* line 202, and the call of the checker at line 204
InitializeOrtModel ==
    /\ pc = "initialize_ort"
    /\ LET initialized == Initialize(session_object_2, "")
       IN IF initialized = nullptr
          THEN /\ failures' = Report(TRUE, "Initialize")
               /\ calls' = Invoked(calls, "session_object2", "Initialize", FALSE)
               /\ pc' = "returned"
               /\ UNCHANGED session_object_2
          ELSE /\ session_object_2' = initialized[1]
               /\ calls' = Invoked(Invoked(Invoked(calls, "session_object2", "Initialize", TRUE),
                                            "session_object", "CompareGraphAndSessionState", TRUE),
                                    "session_object2", "CompareGraphAndSessionState", TRUE)
               /\ pc' = "compare"
               /\ UNCHANGED failures
    /\ UNCHANGED <<session_object_1, todo, cursor, compared, files, kernel, session_object, fetches>>

SaveAndCompareModels ==
    \/ LoadOnnxModel
    \/ InitializeAndSave
    \/ LoadOrtModel
    \/ InitializeOrtModel
    \/ CompareGraphAndSessionState

\* the models the test is run on: one component of a base model varies
Initializer(name, tensor) == [name |-> name, tensor |-> tensor]

BaseInitializers == <<Initializer("a", Tensor(<<1>>, "int8", <<1>>))>>

InitializerLists ==
    {<<>>} \cup {<<Initializer("a", t)>> : t \in Tensors}
        \cup {<<Initializer("a", t), Initializer("b", o)>> : t \in OtherTensors \cup {BaseInitializers[1].tensor}, o \in OtherTensors}
        \cup {<<Initializer("a", t), Initializer("a", t)>> : t \in OtherTensors}

Models ==
    {Graph(<<NodeArg("x", "", t)>>, BaseNodes, BaseInitializers) : t \in TypeProtos}
        \cup {Graph(i, BaseNodes, BaseInitializers) :
                i \in InputLists \cup {<<NodeArg("x", "", BaseType), NodeArg("x", "doc", BaseType)>>}}
        \cup {Graph(BaseInputs, n, BaseInitializers) : n \in NodeMaps \cup {<<>>}}
        \cup {Graph(BaseInputs, BaseNodes, q) : q \in InitializerLists}

InitRoundTrip ==
    /\ pc = "load"
    /\ session_object_1 = Unloaded
    /\ session_object_2 = Unloaded
    /\ todo = {}
    /\ cursor = 0
    /\ failures = {}
    /\ compared = 0
    /\ \/ files = NoFiles
       \/ \E model \in Models : files = (onnx_file :> OnnxFile(model))
    /\ kernel = NoKernel
    /\ session_object = NoSession
    /\ fetches = NoFetches
    /\ calls = NoCalls

\* the round-trip test on every model
SpecRoundTrip == InitRoundTrip /\ [][SaveAndCompareModels]_vars

(***************************************************************************)
(* TEST(OrtModelOnlyTests, SerializeToOrtFormat): SaveAndCompareModels,    *)
(* then RunOrtModel on the .ort file. A failed ASSERT returns from the     *)
(* function that holds it, and from that function only: the body of the    *)
(* test goes on after SaveAndCompareModels has returned.                   *)
(***************************************************************************)
\* lines 211-227: the feeds, the requested outputs and the expected value
test_inputs == {"state_var_in"}

output_names == <<"state_var_out">>

ExpectedOutput == 125

\* the names a session can be fed, and the names it can fetch
FeedableNames(session) == {session.inputs[i].name : i \in 1..Len(session.inputs)}

FetchableNames(session) == {a.name : a \in Range(DeclaredArgs(session))}

\* the status of Run: the session is initialized, and it knows the names
RunStatusOk(session, feeds, names) ==
    /\ session.state = "Initialized"
    /\ feeds \subseteq FeedableNames(session)
    /\ Range(names) \subseteq FetchableNames(session)

\* the values a run can fetch for one output: the kernels are not modelled
FetchedTensors ==
    {Tensor(<<1>>, "float", <<ExpectedOutput>>), Tensor(<<1>>, "float", <<123>>),
     Tensor(<<2>>, "float", <<ExpectedOutput, ExpectedOutput>>)}

\* lines 223-227: the two ASSERT_TRUE of the output verifier
OutputVerified(fetched) ==
    /\ Len(fetched[1].data) = 1
    /\ fetched[1].data[1] = ExpectedOutput

\* line 209 has returned, lines 211-229 and 48-53: the session of RunOrtModel is constructed
RunOrtModelCall ==
    /\ pc \in {"done", "returned"}
    /\ pc' = "run_load"
    /\ session_object' = Unloaded
    /\ UNCHANGED <<session_object_1, session_object_2, todo, cursor, failures, compared, files, kernel,
                    fetches, calls>>

\* line 54 with ASSERT_STATUS_OK replaced by EXPECT_STATUS_OK
RunLoadExpectStatusOk ==
    /\ pc = "run_load"
    /\ LET loaded == Load(ort_file, "ORT")
       IN IF loaded = nullptr
          THEN /\ failures' = Report(TRUE, "RunOrtModel.Load")
               /\ calls' = Invoked(calls, "RunOrtModel.session_object", "Load", FALSE)
               /\ pc' = "run_initialize"
               /\ UNCHANGED session_object
          ELSE /\ session_object' = loaded[1]
               /\ calls' = Invoked(calls, "RunOrtModel.session_object", "Load", TRUE)
               /\ pc' = "run_initialize"
               /\ UNCHANGED failures
    /\ UNCHANGED <<session_object_1, session_object_2, todo, cursor, compared, files, kernel, fetches>>

\* line 54
RunLoad ==
    /\ pc = "run_load"
    /\ LET loaded == Load(ort_file, "ORT")
       IN IF loaded = nullptr
          THEN /\ failures' = Report(TRUE, "RunOrtModel.Load")
               /\ calls' = Invoked(calls, "RunOrtModel.session_object", "Load", FALSE)
               /\ pc' = "run_returned"
               /\ UNCHANGED session_object
          ELSE /\ session_object' = loaded[1]
               /\ calls' = Invoked(calls, "RunOrtModel.session_object", "Load", TRUE)
               /\ pc' = "run_initialize"
               /\ UNCHANGED failures
    /\ UNCHANGED <<session_object_1, session_object_2, todo, cursor, compared, files, kernel, fetches>>

\* line 55
RunInitialize ==
    /\ pc = "run_initialize"
    /\ LET initialized == Initialize(session_object, "")
       IN IF initialized = nullptr
          THEN /\ failures' = Report(TRUE, "RunOrtModel.Initialize")
               /\ calls' = Invoked(calls, "RunOrtModel.session_object", "Initialize", FALSE)
               /\ pc' = "run_returned"
               /\ UNCHANGED session_object
          ELSE /\ session_object' = initialized[1]
               /\ calls' = Invoked(calls, "RunOrtModel.session_object", "Initialize", TRUE)
               /\ pc' = "run"
               /\ UNCHANGED failures
    /\ UNCHANGED <<session_object_1, session_object_2, todo, cursor, compared, files, kernel, fetches>>

\* lines 57-58
Run ==
    /\ pc = "run"
    /\ IF ~RunStatusOk(session_object, test_inputs, output_names)
       THEN /\ failures' = Report(TRUE, "RunOrtModel.Run")
            /\ calls' = Invoked(calls, "RunOrtModel.session_object", "Run", FALSE)
            /\ pc' = "run_returned"
            /\ UNCHANGED fetches
       ELSE /\ \E fetched \in FetchedTensors : fetches' = <<fetched>>
            /\ calls' = Invoked(calls, "RunOrtModel.session_object", "Run", TRUE)
            /\ pc' = "output_verifier"
            /\ UNCHANGED failures
    /\ UNCHANGED <<session_object_1, session_object_2, session_object, todo, cursor, compared, files, kernel>>

\* line 59: the verifier of lines 222-227 is applied to the fetched outputs
VerifyOutput ==
    /\ pc = "output_verifier"
    /\ failures' = Report(~OutputVerified(fetches), "output_verifier")
    /\ calls' = Invoked(calls, "RunOrtModel.session_object", "output_verifier", OutputVerified(fetches))
    /\ pc' = "run_returned"
    /\ UNCHANGED <<session_object_1, session_object_2, session_object, todo, cursor, compared, files, kernel,
                    fetches>>

RunOrtModel ==
    \/ RunOrtModelCall
    \/ RunLoad
    \/ RunInitialize
    \/ Run
    \/ VerifyOutput

SerializeToOrtFormat ==
    \/ SaveAndCompareModels
    \/ RunOrtModel

\* the model of testdata/ort_github_issue_4031.onnx: state_var_in to state_var_out
Issue4031Model ==
    Graph(<<NodeArg("state_var_in", "", TensorType("", "float", <<DimValue(1)>>))>>,
          (0 :> Node(<<NodeArg("state_var_out", "", TensorType("", "float", <<DimValue(1)>>))>>)),
          BaseInitializers)

\* what a previous run of the test left at the path of the .ort file
StaleOrtFiles ==
    {OrtFile(Serialize(Issue4031Model)), OrtFile(Serialize(Graph(BaseInputs, BaseNodes, BaseInitializers))),
     OrtFile(<<"ORTM">>), OnnxFile(Issue4031Model)}

TestFiles ==
    LET onnx_files == {NoFiles} \cup {(onnx_file :> OnnxFile(model)) : model \in Models \cup {Issue4031Model}}
        ort_files == {NoFiles} \cup {(ort_file :> stale) : stale \in StaleOrtFiles}
    IN {o @@ r : o \in onnx_files, r \in ort_files}

InitTest ==
    /\ pc = "load"
    /\ session_object_1 = Unloaded
    /\ session_object_2 = Unloaded
    /\ todo = {}
    /\ cursor = 0
    /\ failures = {}
    /\ compared = 0
    /\ files \in TestFiles
    /\ kernel = NoKernel
    /\ session_object = NoSession
    /\ fetches = NoFetches
    /\ calls = NoCalls

\* the test on every model and every content of the working directory
SpecTest == InitTest /\ [][SerializeToOrtFormat]_vars

(***************************************************************************)
(* The loss kernels of cross_entropy.cc.  Floating-point numbers are       *)
(* modelled as integers; a quotient is kept as the pair [num, den].  Exp   *)
(* and Log are taken to base 2 in fixed point: Exp(x) = 2^(FracBits + x)   *)
(* for x <= 0, and Log rounds down.  A read or write outside a buffer is   *)
(* undefined behaviour: it is recorded in kernel.oob, a read yields any    *)
(* value of Garbage.                                                       *)
(***************************************************************************)
MaxRank == 3       \* rank of the logit / log-probability tensor

DimSizes == {1, 2}

LogitValues == 0..3

Garbage == {0, 7}

FracBits == CHOOSE m \in LogitValues : \A v \in LogitValues : v <= m

RECURSIVE Pow2(_)
Pow2(k) == IF k <= 0 THEN 1 ELSE 2 * Pow2(k - 1)

RECURSIVE FloorLog2(_)
FloorLog2(x) == IF x <= 1 THEN 0 ELSE 1 + FloorLog2(x \div 2)

Exp(x) == Pow2(FracBits + x)

Log(x) == FloorLog2(x) - FracBits

RECURSIVE SumSeq(_)
SumSeq(q) == IF q = <<>> THEN 0 ELSE Head(q) + SumSeq(Tail(q))

RECURSIVE MaxSeq(_)
MaxSeq(q) == IF Len(q) = 1 THEN q[1] ELSE LET m == MaxSeq(Tail(q)) IN IF Head(q) > m THEN Head(q) ELSE m

\* TensorShape::operator[] with a 0-based index; outside the dimensions it reads garbage
ShapeAt(shape, i, garbage) == IF i + 1 \in 1..Len(shape) THEN shape[i + 1] ELSE garbage

\* a buffer element with a 0-based index; outside the buffer it reads garbage
ReadAt(buffer, i, garbage) == IF i + 1 \in 1..Len(buffer) THEN buffer[i + 1] ELSE garbage

InRange(buffer, i) == i + 1 \in 1..Len(buffer)

\* ComputeShareSoftmaxCrossEntropyCPU: the log-softmax of n rows of d logits
Row(data, d, i) == [j \in 1..d |-> data[(i - 1) * d + j]]

ComputeShareSoftmaxCrossEntropyCPU(n, d, nd, logit_data) ==
    LET logit_max == [i \in 1..n |-> MaxSeq(Row(logit_data, d, i))]
        shifted_logit == [k \in 1..nd |-> logit_data[k] - logit_max[((k - 1) \div d) + 1]]
        exp_shifted == [k \in 1..nd |-> Exp(shifted_logit[k])]
        log_sum_exp == [i \in 1..n |-> Log(SumSeq(Row(exp_shifted, d, i)))]
    IN [k \in 1..nd |-> shifted_logit[k] - log_sum_exp[((k - 1) \div d) + 1]]

\* TransposeBase::DoTranspose with permutation {0, 2, 1} of a tensor of shape [a, b, c]
DoTranspose021(data, shape) ==
    LET a == shape[1]
        b == shape[2]
        c == shape[3]
    IN [k \in 1..(a * c * b) |->
            LET k0 == (k - 1) \div (c * b)
                k2 == ((k - 1) % (c * b)) \div b
                k1 == (k - 1) % b
            IN data[(k0 * b + k1) * c + k2 + 1]]

Quotient(num, den) == [num |-> num, den |-> den]

\* the weighted reduction normalised by the sample count
ReduceWeightedBySampleCount(reduction, sum_loss, sum_weight, n) ==
    IF reduction = "mean" THEN Quotient(sum_loss, n) ELSE Quotient(sum_loss, 1)

\* lines 261-271: the reduction of the weighted per-sample losses
ReduceWeighted(reduction, sum_loss, sum_weight, n) ==
    IF reduction = "mean" THEN Quotient(sum_loss, sum_weight) ELSE Quotient(sum_loss, 1)

\* lines 277-286: the reduction of the unweighted per-sample losses
ReduceUnweighted(reduction, sum_loss, n) ==
    IF reduction = "mean" THEN Quotient(sum_loss, n) ELSE Quotient(sum_loss, 1)

OutputNotAllocated == <<>>

\* the dimension checks with the loop over the trailing dimensions left out
LossDimsMatchFirstOnly(label_shape, logit_shape, dim0) == dim0 = logit_shape[1]

\* lines 185-191: the dimension checks; dim0 is what label_shape[0] read
LossDimsMatch(label_shape, logit_shape, dim0) ==
    /\ dim0 = logit_shape[1]
    /\ Len(label_shape) >= 2 => \A i \in 0..(Len(label_shape) - 2) : label_shape[i + 2] = logit_shape[i + 3]

\* SoftmaxCrossEntropyLoss::Compute, lines 179-191: the shape checks
LossEnforceShapes ==
    /\ kernel.op = "SoftmaxCrossEntropyLoss"
    /\ kernel.pc = "start"
    /\ LET logit_shape == kernel.logit_shape
           label_shape == kernel.label_shape
           label_dims == Len(label_shape)
       IN IF Len(logit_shape) # label_dims + 1
          THEN kernel' = [kernel EXCEPT !.pc = "enforce_failed",
                                        !.status = "logit_shape must be (1 + label_shape)"]
          ELSE \E garbage \in Garbage \cup {logit_shape[1]} :
                LET dim0 == ShapeAt(label_shape, 0, garbage)
                    oob == IF label_dims = 0 THEN {"label_shape[0]"} ELSE {}
                IN IF ~LossDimsMatch(label_shape, logit_shape, dim0)
                   THEN kernel' = [kernel EXCEPT !.pc = "enforce_failed", !.oob = oob,
                                                 !.status = "The shape of logit and label does not match"]
                   ELSE kernel' = [kernel EXCEPT !.pc = "flatten", !.oob = oob, !.label_dim0 = dim0]
    /\ UNCHANGED <<pc, session_object_1, session_object_2, todo, cursor, failures, compared, files,
                    session_object, fetches, calls>>

checker_vars ==
    <<pc, session_object_1, session_object_2, todo, cursor, failures, compared, files,
      session_object, fetches, calls>>

\* the content of output memory that has not been written
Uninitialized == Quotient(0, -1)

\* lines 193-215: N, D and the transposition of logits of rank above 2.  The
\* permutation has three axes: on a tensor of higher rank DoTranspose is used
\* outside its contract and either fails or leaves unspecified content.
LossFlatten ==
    /\ kernel.op = "SoftmaxCrossEntropyLoss"
    /\ kernel.pc = "flatten"
    /\ LET logit_shape == kernel.logit_shape
           label_dims == Len(kernel.label_shape)
       IN IF Len(logit_shape) > 2
          THEN LET N == logit_shape[1] * logit_shape[3]
                   D == logit_shape[2]
               IN IF Len(logit_shape) = 3
                  THEN kernel' = [kernel EXCEPT !.pc = "allocate", !.n = N, !.d = D, !.nd = N * D,
                                      !.logit_data = DoTranspose021(kernel.logit_data, logit_shape)]
                  ELSE \/ kernel' = [kernel EXCEPT !.pc = "returned", !.status = "DoTranspose failed"]
                       \/ \E garbage \in LogitValues :
                            kernel' = [kernel EXCEPT !.pc = "allocate", !.n = N, !.d = D, !.nd = N * D,
                                           !.oob = @ \cup {"DoTranspose"},
                                           !.logit_data = [k \in 1..(N * D) |-> garbage]]
          ELSE LET N == Size(kernel.label_shape)
                   D == logit_shape[label_dims + 1]
               IN kernel' = [kernel EXCEPT !.pc = "allocate", !.n = N, !.d = D, !.nd = N * D]
    /\ UNCHANGED checker_vars

\* lines 216-228: the loss output and the log-probability output or buffer
LossAllocateOutputs ==
    /\ kernel.op = "SoftmaxCrossEntropyLoss"
    /\ kernel.pc = "allocate"
    /\ LET loss_shape == IF kernel.reduction = "none" THEN <<kernel.label_dim0>> ELSE <<>>
       IN kernel' = [kernel EXCEPT !.pc = "softmax",
                         !.loss = <<[shape |-> loss_shape, data |-> [k \in 1..Size(loss_shape) |-> Uninitialized]]>>,
                         !.log_prob_allocated = TRUE]
    /\ UNCHANGED checker_vars

\* lines 230-240: the log-probabilities (the first nd elements of a buffer of
\* logit_shape.Size() elements) and the per-sample buffer
LossLogSoftmax ==
    /\ kernel.op = "SoftmaxCrossEntropyLoss"
    /\ kernel.pc = "softmax"
    /\ \E garbage \in Garbage :
        LET log_prob == ComputeShareSoftmaxCrossEntropyCPU(kernel.n, kernel.d, kernel.nd, kernel.logit_data)
        IN kernel' = [kernel EXCEPT !.pc = "per_sample",
                          !.log_prob_data = [k \in 1..Size(kernel.logit_shape) |->
                                                IF k <= kernel.nd THEN log_prob[k] ELSE garbage]]
    /\ UNCHANGED checker_vars

\* the capacity of loss_sample: the loss output for reduction none, else a buffer of n
LossSampleCapacity == IF kernel.reduction = "none" THEN Len(kernel.loss[1].data) ELSE kernel.n

\* loss_sample[i] of lines 251, 257 and 274, i counted from 0
LossOfSample(i, garbage) ==
    LET label == ReadAt(kernel.label_data, i, garbage)
        log_prob == ReadAt(kernel.log_prob_data, i * kernel.d + label, garbage)
    IN IF kernel.has_weight THEN (-log_prob) * ReadAt(kernel.weight_data, label, garbage) ELSE -log_prob

\* the weight added to sum_weight at line 252
WeightOfSample(i, garbage) == ReadAt(kernel.weight_data, ReadAt(kernel.label_data, i, garbage), garbage)

\* the accesses of the per-sample loop that fall outside their buffer
LossSampleOutOfBounds(garbage) ==
    {"label_data" : i \in {j \in 0..(kernel.n - 1) : ~InRange(kernel.label_data, j)}}
        \cup {"log_prob_data" : i \in {j \in 0..(kernel.n - 1) :
                ~InRange(kernel.log_prob_data, j * kernel.d + ReadAt(kernel.label_data, j, garbage))}}
        \cup {"weight_data" : i \in {j \in 0..(kernel.n - 1) :
                kernel.has_weight /\ ~InRange(kernel.weight_data, ReadAt(kernel.label_data, j, garbage))}}
        \cup {"loss_sample" : i \in {j \in 0..(kernel.n - 1) : j >= LossSampleCapacity}}

\* lines 242-259 and 273-275: the weight check and the per-sample loop
LossPerSample ==
    /\ kernel.op = "SoftmaxCrossEntropyLoss"
    /\ kernel.pc = "per_sample"
    /\ IF kernel.has_weight /\ Len(kernel.weight_shape) # 1
       THEN kernel' = [kernel EXCEPT !.pc = "enforce_failed", !.status = "Weights tensor is not 1-D."]
       ELSE \E garbage \in Garbage :
            LET loss_sample == [k \in 1..kernel.n |-> LossOfSample(k - 1, garbage)]
                sum_weight ==
                    IF kernel.has_weight /\ kernel.reduction = "mean"
                    THEN SumSeq([k \in 1..kernel.n |-> WeightOfSample(k - 1, garbage)])
                    ELSE 0
                oob == LossSampleOutOfBounds(garbage)
                written == [kernel EXCEPT !.pc = "reduce", !.oob = @ \cup oob,
                               !.loss_sample = loss_sample, !.sum_weight = sum_weight,
                               !.loss = IF kernel.reduction = "none"
                                        THEN <<[@[1] EXCEPT !.data = [k \in 1..Len(@) |->
                                                    IF k <= kernel.n THEN Quotient(loss_sample[k], 1) ELSE @[k]]]>>
                                        ELSE @]
            IN \/ kernel' = written
               \/ /\ oob # {}
                  /\ kernel' = [written EXCEPT !.pc = "crashed"]
    /\ UNCHANGED checker_vars

\* lines 261-288: the reduction
LossReduce ==
    /\ kernel.op = "SoftmaxCrossEntropyLoss"
    /\ kernel.pc = "reduce"
    /\ IF kernel.reduction = "none"
       THEN kernel' = [kernel EXCEPT !.pc = "done", !.status = "OK"]
       ELSE LET sum_loss == SumSeq(kernel.loss_sample)
                loss_data ==
                    IF kernel.has_weight
                    THEN ReduceWeighted(kernel.reduction, sum_loss, kernel.sum_weight, kernel.n)
                    ELSE ReduceUnweighted(kernel.reduction, sum_loss, kernel.n)
            IN kernel' = [kernel EXCEPT !.pc = "done", !.status = "OK", !.loss = <<[@[1] EXCEPT !.data = <<loss_data>>]>>]
    /\ UNCHANGED checker_vars

SoftmaxCrossEntropyLossCompute ==
    \/ LossEnforceShapes
    \/ LossFlatten
    \/ LossAllocateOutputs
    \/ LossLogSoftmax
    \/ LossPerSample
    \/ LossReduce

(***************************************************************************)
(* The invocations of the kernels.                                         *)
(***************************************************************************)
Shapes(lo, hi) == {q \in SeqsUpTo(DimSizes, hi) : Len(q) >= lo}

Reductions == {"mean", "sum", "none"}

LogitData(seed, size) == [k \in 1..size |-> (seed * k + (k \div 2)) % 4]

\* the labels of a pattern: all in class 0, or alternating between classes 1 and 0
LabelData(pattern, size) == [k \in 1..size |-> IF pattern = "zeros" THEN 0 ELSE k % 2]

\* the class axis of the logits: axis 1, or axis 0 of a vector
Classes(logit_shape) == IF Len(logit_shape) = 1 THEN logit_shape[1] ELSE logit_shape[2]

\* the weight inputs: none, one weight per class, too few weights, or a matrix
WeightInputs(classes) ==
    {[has_weight |-> FALSE, weight_shape |-> <<>>, weight_data |-> <<>>],
     [has_weight |-> TRUE, weight_shape |-> <<classes>>, weight_data |-> [c \in 1..classes |-> c]],
     [has_weight |-> TRUE, weight_shape |-> <<classes>>, weight_data |-> [c \in 1..classes |-> c - 1]],
     [has_weight |-> TRUE, weight_shape |-> <<1>>, weight_data |-> <<2>>],
     [has_weight |-> TRUE, weight_shape |-> <<1, classes>>, weight_data |-> [c \in 1..classes |-> c]]}

LossInvocation(reduction, logit_shape, seed, label_shape, pattern, weight) ==
    [op |-> "SoftmaxCrossEntropyLoss", pc |-> "start", status |-> "", reduction |-> reduction,
     logit_shape |-> logit_shape, logit_data |-> LogitData(seed, Size(logit_shape)),
     label_shape |-> label_shape, label_data |-> LabelData(pattern, Size(label_shape)),
     has_weight |-> weight.has_weight, weight_shape |-> weight.weight_shape, weight_data |-> weight.weight_data,
     oob |-> {}, label_dim0 |-> 0, n |-> 0, d |-> 0, nd |-> 0,
     loss |-> OutputNotAllocated, log_prob_allocated |-> FALSE, log_prob_data |-> <<>>,
     loss_sample |-> <<>>, sum_weight |-> 0]

\* the test harness is not running
CheckerIdle ==
    /\ pc = "idle"
    /\ session_object_1 = Session(<<>>, <<>>, <<>>)
    /\ session_object_2 = Session(<<>>, <<>>, <<>>)
    /\ todo = {}
    /\ cursor = 0
    /\ failures = {}
    /\ compared = 0
    /\ files = NoFiles
    /\ session_object = NoSession
    /\ fetches = NoFetches
    /\ calls = NoCalls

\* the label shape that passes the shape checks with a logit shape of rank
\* two or more: the logit shape without its class axis
ConformingLabelShape(logit_shape) == <<logit_shape[1]>> \o SubSeq(logit_shape, 3, Len(logit_shape))

\* every pair of shapes up to rank MaxRank, and the logits of the next rank
\* with the label shape the checks accept
InitLoss ==
    /\ CheckerIdle
    /\ \/ \E reduction \in Reductions, logit_shape \in Shapes(1, MaxRank), label_shape \in Shapes(0, MaxRank),
             seed \in {1, 3}, pattern \in {"zeros", "alternating"} :
            \E weight \in WeightInputs(Classes(logit_shape)) :
                kernel = LossInvocation(reduction, logit_shape, seed, label_shape, pattern, weight)
       \/ \E reduction \in Reductions, logit_shape \in Shapes(MaxRank + 1, MaxRank + 1),
             seed \in {1, 3}, pattern \in {"zeros", "alternating"} :
            \E weight \in WeightInputs(Classes(logit_shape)) :
                kernel = LossInvocation(reduction, logit_shape, seed, ConformingLabelShape(logit_shape),
                                        pattern, weight)

(***************************************************************************)
(* SoftmaxCrossEntropyLossGrad::Compute.  An element of d_logit is the     *)
(* quotient of (Exp(log_prob) - One * indicator) * weight * dY by the      *)
(* divisor of dY_scaled, in units of 1 / One.                              *)
(***************************************************************************)
One == Exp(0)

\* lines 300-306: the shape checks
GradEnforceShapes ==
    /\ kernel.op = "SoftmaxCrossEntropyLossGrad"
    /\ kernel.pc = "start"
    /\ LET probability_shape == kernel.probability_shape
           label_shape == kernel.label_shape
       IN IF Len(probability_shape) # Len(label_shape) + 1
          THEN kernel' = [kernel EXCEPT !.pc = "enforce_failed",
                                        !.status = "probability_shape must be (1 + label_shape)"]
          ELSE IF \E i \in 1..Len(label_shape) : label_shape[i] # probability_shape[i]
          THEN kernel' = [kernel EXCEPT !.pc = "enforce_failed",
                                        !.status = "The shape of probability and label does not match"]
          ELSE kernel' = [kernel EXCEPT !.pc = "allocate"]
    /\ UNCHANGED checker_vars

\* lines 308-318: N, D and the output
GradAllocateOutput ==
    /\ kernel.op = "SoftmaxCrossEntropyLossGrad"
    /\ kernel.pc = "allocate"
    /\ LET N == Size(kernel.label_shape)
           D == kernel.probability_shape[Len(kernel.probability_shape)]
       IN kernel' = [kernel EXCEPT !.pc = "compute", !.n = N, !.d = D,
                         !.d_logit = <<[shape |-> kernel.probability_shape,
                                        data |-> [k \in 1..Size(kernel.probability_shape) |-> Uninitialized]]>>]
    /\ UNCHANGED checker_vars

\* the divisor of dY_scaled in the weighted branch, lines 327-332
GradDivisorWeighted(reduction, sum_weight, n) == IF reduction = "mean" THEN sum_weight ELSE 1

\* the divisor of dY_scaled in the unweighted branch, lines 343-346
GradDivisorUnweighted(reduction, n) == IF reduction = "mean" THEN n ELSE 1

\* lines 320-357: the weight check and the two loops
GradCompute ==
    /\ kernel.op = "SoftmaxCrossEntropyLossGrad"
    /\ kernel.pc = "compute"
    /\ IF kernel.has_weight /\ kernel.weight_shape # kernel.label_shape
       THEN kernel' = [kernel EXCEPT !.pc = "enforce_failed", !.status = "The shape of weight and label is different"]
       ELSE LET n == kernel.n
                d == kernel.d
                divisor ==
                    IF kernel.has_weight
                    THEN GradDivisorWeighted(kernel.reduction, SumSeq(SubSeq(kernel.weight_data, 1, n)), n)
                    ELSE GradDivisorUnweighted(kernel.reduction, n)
                element(index) ==
                    LET i == index \div d
                        j == index % d
                        label_sample == kernel.label_data[i + 1]
                        weight_sample == IF kernel.has_weight THEN kernel.weight_data[i + 1] ELSE 1
                        indicator == IF label_sample = j THEN One ELSE 0
                    IN Quotient((Exp(kernel.log_prob_data[index + 1]) - indicator) * weight_sample * kernel.dY, divisor)
            IN kernel' = [kernel EXCEPT !.pc = "done", !.status = "OK",
                              !.d_logit = <<[@[1] EXCEPT !.data = [k \in 1..(n * d) |-> element(k - 1)]]>>]
    /\ UNCHANGED checker_vars

SoftmaxCrossEntropyLossGradCompute ==
    \/ GradEnforceShapes
    \/ GradAllocateOutput
    \/ GradCompute

LogProbData(seed, size) == [k \in 1..size |-> 0 - ((seed * k) % 4)]

\* the weight inputs of the gradient: none, one weight per sample, or another shape
GradWeightInputs(label_shape) ==
    {[has_weight |-> FALSE, weight_shape |-> <<>>, weight_data |-> <<>>],
     [has_weight |-> TRUE, weight_shape |-> label_shape, weight_data |-> [k \in 1..Size(label_shape) |-> k]],
     [has_weight |-> TRUE, weight_shape |-> <<2>> \o label_shape,
      weight_data |-> [k \in 1..(2 * Size(label_shape)) |-> k]]}

GradInvocation(reduction, probability_shape, seed, label_shape, pattern, weight, dY) ==
    [op |-> "SoftmaxCrossEntropyLossGrad", pc |-> "start", status |-> "", reduction |-> reduction,
     probability_shape |-> probability_shape, log_prob_data |-> LogProbData(seed, Size(probability_shape)),
     label_shape |-> label_shape, label_data |-> LabelData(pattern, Size(label_shape)),
     has_weight |-> weight.has_weight, weight_shape |-> weight.weight_shape, weight_data |-> weight.weight_data,
     dY |-> dY, oob |-> {}, n |-> 0, d |-> 0, d_logit |-> OutputNotAllocated]

InitGrad ==
    /\ CheckerIdle
    /\ \E reduction \in Reductions, probability_shape \in Shapes(1, MaxRank), label_shape \in Shapes(0, MaxRank),
          seed \in {1, 3}, pattern \in {"zeros", "alternating"}, dY \in {1, 2} :
        \E weight \in GradWeightInputs(label_shape) :
            kernel = GradInvocation(reduction, probability_shape, seed, label_shape, pattern, weight, dY)

(***************************************************************************)
(* SoftmaxCrossEntropyGrad::Compute: the gradient for dense labels.  The   *)
(* labels are floats of the shape of the log-probabilities, 0 or 1; an     *)
(* element of d_logit is kept as for SoftmaxCrossEntropyLossGrad.  A read  *)
(* of dY_scaled before any assignment yields any value of Garbage and is   *)
(* recorded in kernel.oob.                                                 *)
(***************************************************************************)
\* TensorShape::SizeToDimension
SizeToDimension(shape, dimension) == Size(SubSeq(shape, 1, dimension))

\* lines 124-127: the shape check
SceGradEnforceShapes ==
    /\ kernel.op = "SoftmaxCrossEntropyGrad"
    /\ kernel.pc = "start"
    /\ IF kernel.label_shape # kernel.probability_shape
       THEN kernel' = [kernel EXCEPT !.pc = "enforce_failed",
                                     !.status = "The shape of probability and label is not identical"]
       ELSE kernel' = [kernel EXCEPT !.pc = "allocate"]
    /\ UNCHANGED checker_vars

\* lines 129-138: N, nd and the output
SceGradAllocateOutput ==
    /\ kernel.op = "SoftmaxCrossEntropyGrad"
    /\ kernel.pc = "allocate"
    /\ LET probability_shape == kernel.probability_shape
       IN kernel' = [kernel EXCEPT !.pc = "compute",
                         !.n = SizeToDimension(probability_shape, Len(probability_shape) - 1),
                         !.nd = Size(probability_shape),
                         !.d_logit = <<[shape |-> probability_shape,
                                        data |-> [k \in 1..Size(probability_shape) |-> Uninitialized]]>>]
    /\ UNCHANGED checker_vars

\* lines 147-152: dY_scaled, a local that no branch assigns for reduction none
SceGradScale(reduction, dY, n, garbage) ==
    IF reduction = "mean" THEN Quotient(dY, n)
    ELSE IF reduction = "sum" THEN Quotient(dY, 1)
    ELSE Quotient(garbage, 1)

\* lines 140-157: exp, the subtraction of the labels and the scaling
SceGradCompute ==
    /\ kernel.op = "SoftmaxCrossEntropyGrad"
    /\ kernel.pc = "compute"
    /\ \E garbage \in Garbage :
        LET dY_scaled == SceGradScale(kernel.reduction, kernel.dY, kernel.n, garbage)
            backprop == [k \in 1..kernel.nd |-> Exp(kernel.log_prob_data[k]) - One * kernel.label_data[k]]
        IN kernel' = [kernel EXCEPT !.pc = "done", !.status = "OK",
                          !.oob = IF kernel.reduction \in {"mean", "sum"} THEN @ ELSE @ \cup {"dY_scaled"},
                          !.d_logit = <<[@[1] EXCEPT !.data =
                                [k \in 1..kernel.nd |-> Quotient(backprop[k] * dY_scaled.num, dY_scaled.den)]]>>]
    /\ UNCHANGED checker_vars

SoftmaxCrossEntropyGradCompute ==
    \/ SceGradEnforceShapes
    \/ SceGradAllocateOutput
    \/ SceGradCompute

\* dense labels: a 1 at the class of each row, class 0 or the row number modulo the classes
OneHotData(pattern, shape) ==
    [k \in 1..Size(shape) |->
        LET d == IF Len(shape) = 0 THEN 1 ELSE shape[Len(shape)]
            row == (k - 1) \div d
            class == IF pattern = "zeros" THEN 0 ELSE row % d
        IN IF (k - 1) % d = class THEN 1 ELSE 0]

SceGradInvocation(reduction, probability_shape, seed, label_shape, pattern, dY) ==
    [op |-> "SoftmaxCrossEntropyGrad", pc |-> "start", status |-> "", reduction |-> reduction,
     probability_shape |-> probability_shape, log_prob_data |-> LogProbData(seed, Size(probability_shape)),
     label_shape |-> label_shape, label_data |-> OneHotData(pattern, label_shape),
     dY |-> dY, oob |-> {}, n |-> 0, nd |-> 0, d_logit |-> OutputNotAllocated]

InitSceGrad ==
    /\ CheckerIdle
    /\ \E reduction \in Reductions, probability_shape \in Shapes(1, MaxRank), label_shape \in Shapes(1, MaxRank),
          seed \in {1, 3}, pattern \in {"zeros", "alternating"}, dY \in {1, 2} :
        /\ Len(label_shape) = Len(probability_shape)
        /\ kernel = SceGradInvocation(reduction, probability_shape, seed, label_shape, pattern, dY)

\* one invocation of a loss kernel
SpecLoss ==
    (InitLoss \/ InitGrad \/ InitSceGrad)
        /\ [][SoftmaxCrossEntropyLossCompute \/ SoftmaxCrossEntropyLossGradCompute
                \/ SoftmaxCrossEntropyGradCompute]_vars

(***************************************************************************)
(*                              PROPERTIES                                 *)
(***************************************************************************)

\* the type descriptors of graph input x in the two sessions
LeftType == session_object_1.inputs[1].type

RightType == session_object_2.inputs[1].type

\* the loop over the graph inputs ran to its end
InputsCompared == pc \in {"nodes", "done"}

\* only tensor, sequence and map variants, at every level
RECURSIVE Supported(_)
Supported(t) ==
    \/ t.value_case = "tensor_type"
    \/ t.value_case \in {"sequence_type", "map_type"} /\ Supported(t.sub[1])

ActiveAlternative(d) == IF d.has_dim_value THEN "dim_value" ELSE IF d.has_dim_param THEN "dim_param" ELSE "none"

DimsAgree(l, r) ==
    /\ ActiveAlternative(l) = ActiveAlternative(r)
    /\ ActiveAlternative(l) = "dim_value" => l.dim_value = r.dim_value
    /\ ActiveAlternative(l) = "dim_param" => l.dim_param = r.dim_param

\* agreement of two type descriptors at the top level
LevelAgrees(l, r) ==
    /\ l.denotation = r.denotation
    /\ l.value_case = r.value_case
    /\ l.value_case = "tensor_type" =>
        /\ l.elem_type = r.elem_type
        /\ Len(l.dim) = Len(r.dim)
        /\ \A i \in 1..Len(l.dim) : DimsAgree(l.dim[i], r.dim[i])
    /\ l.value_case = "map_type" => l.key_type = r.key_type

\* agreement at every level
RECURSIVE Agree(_, _)
Agree(l, r) ==
    /\ LevelAgrees(l, r)
    /\ l.value_case \in {"sequence_type", "map_type"} => Agree(l.sub[1], r.sub[1])

\* C3: for two type descriptors built from tensor, sequence and map variants
\* and nested up to MaxDepth levels, CompareTypeProtos records no failure if
\* and only if the two agree at every level on denotation, populated variant,
\* tensor element type, dimension count, each dimension's active alternative
\* and value, and map key type.
C3_TypeDescriptorEquality ==
    (InputsCompared /\ Supported(LeftType) /\ Supported(RightType))
        => (("inputs" \notin failures) <=> Agree(LeftType, RightType))

\* C3 witness: a mismatch below a sequence or map, the levels above agreeing, was detected
C3_Witness ==
    /\ InputsCompared
    /\ Supported(LeftType) /\ Supported(RightType)
    /\ LeftType.value_case = "map_type"
    /\ LevelAgrees(LeftType, RightType)
    /\ ~Agree(LeftType.sub[1], RightType.sub[1])
    /\ "inputs" \in failures

\* C4: when either descriptor populates an unsupported variant (sparse tensor,
\* opaque) or no variant, at the top or at a nested level, CompareTypeProtos
\* records a failure.
C4_UnsupportedFailsClosed ==
    (InputsCompared /\ (~Supported(LeftType) \/ ~Supported(RightType))) => "inputs" \in failures

\* C4 witness: two identical descriptors whose nested level is a sparse tensor were failed
C4_Witness ==
    /\ InputsCompared
    /\ LeftType = RightType
    /\ LeftType.value_case = "sequence_type"
    /\ LeftType.sub[1].value_case = "sparse_tensor_type"
    /\ "inputs" \in failures

\* the initializer step is over (it ran to its end, or it returned on a failure)
InitializersCompared == pc \notin {"compare", "initializers"}

ContentEqual(l, r) == Len(l.data) = Len(r.data) /\ \A i \in 1..Len(l.data) : l.data[i] = r.data[i]

InitializersEqual(l, r) ==
    /\ Cardinality(DOMAIN l) = Cardinality(DOMAIN r)
    /\ \A name \in DOMAIN l :
        /\ name \in DOMAIN r
        /\ l[name].dims = r[name].dims
        /\ l[name].elem_type = r[name].elem_type
        /\ ContentEqual(l[name], r[name])

\* C2: the initializer step records no failure if and only if the two maps
\* have the same cardinality and every name of the first has, in the second,
\* an entry of equal shape, equal element type and equal content.
C2_InitializerSetEquality ==
    InitializersCompared => (("initializers" \notin failures) <=> InitializersEqual(i1, i2))

\* C2 witness: two equal maps of two tensors, one of strings and one of two bytes, were passed
C2_Witness ==
    /\ InitializersCompared
    /\ "initializers" \notin failures
    /\ DOMAIN i1 = {"a", "b"}
    /\ i1["a"].elem_type = "int16" /\ Size(i1["a"].dims) = 1
    /\ IsDataTypeString(i1["b"])

\* the node step ran to its end
NodesCompared == pc = "done"

SlotsEquivalent(l, r) ==
    \/ ~Exists(l) /\ ~Exists(r)
    \/ Exists(l) /\ Exists(r) /\ l.name = r.name /\ Agree(l.type, r.type)

NodesEquivalent(g1, g2) ==
    \A n \in DOMAIN g1.nodes :
        /\ n \in DOMAIN g2.nodes
        /\ Len(g1.nodes[n].outputs) = Len(g2.nodes[n].outputs)
        /\ \A i \in 1..Len(g1.nodes[n].outputs) : SlotsEquivalent(g1.nodes[n].outputs[i], g2.nodes[n].outputs[i])

InputNames(g) == {g.inputs[k].name : k \in 1..Len(g.inputs)}

\* the verdict of the checker on (a, b), as a function
Passes(a, b) ==
    /\ InitializersEqual(a.initialized_tensors, b.initialized_tensors)
    /\ \A k \in 1..Len(a.inputs) :
        /\ GetNodeArg(b, a.inputs[k].name) # nullptr
        /\ ~CompareValueInfos(GetNodeArg(a, a.inputs[k].name)[1], GetNodeArg(b, a.inputs[k].name)[1])
    /\ \A n \in DOMAIN a.nodes :
        /\ n \in DOMAIN b.nodes
        /\ Len(a.nodes[n].outputs) = Len(b.nodes[n].outputs)
        /\ \A i \in 1..Len(a.nodes[n].outputs) : ~CompareOutputSlot(a.nodes[n].outputs[i], b.nodes[n].outputs[i])

\* C6: when the checker records no failure on (A, B), the two graphs have the
\* same graph inputs and the same node indices, and the checker records no
\* failure on (B, A) either.
C6_VerdictCoversBothGraphs ==
    (pc = "done" /\ ~HasFailure) =>
        /\ InputNames(graph_1) = InputNames(graph_2)
        /\ DOMAIN graph_1.nodes = DOMAIN graph_2.nodes
        /\ Passes(session_object_2, session_object_1)

\* C7: once a comparison has recorded a failure, the checker performs no
\* further comparison.
C7_FailFast == [][HasFailure => compared' = compared]_vars

(***************************************************************************)
(* The loss kernels.                                                       *)
(***************************************************************************)
IsLoss == kernel.op = "SoftmaxCrossEntropyLoss"

\* the label dimensions match the leading dimensions of the data positionally
PositionalContract(data_shape, label_shape) ==
    /\ Len(data_shape) = Len(label_shape) + 1
    /\ \A i \in 1..Len(label_shape) : label_shape[i] = data_shape[i]

\* the label dimensions match the dimensions of the data around the class axis 1
ClassAxisContract(data_shape, label_shape) ==
    /\ Len(data_shape) = Len(label_shape) + 1
    /\ \A i \in 1..Len(label_shape) : label_shape[i] = data_shape[IF i = 1 THEN 1 ELSE i + 1]

\* the two kernels of SoftmaxCrossEntropyLoss, forward and backward
IsLossKernel == kernel.op \in {"SoftmaxCrossEntropyLoss", "SoftmaxCrossEntropyLossGrad"}

DataShape == IF IsLoss THEN kernel.logit_shape ELSE kernel.probability_shape

ShapeMessages ==
    {"logit_shape must be (1 + label_shape)", "The shape of logit and label does not match",
     "probability_shape must be (1 + label_shape)", "The shape of probability and label does not match"}

ShapeRejected == kernel.pc = "enforce_failed" /\ kernel.status \in ShapeMessages

OutputsAllocated ==
    IF IsLoss THEN kernel.loss # OutputNotAllocated \/ kernel.log_prob_allocated
    ELSE kernel.d_logit # OutputNotAllocated

\* C8 as stated: both kernels accept a pair only if the label rank is one less
\* than the data rank and label dimension i equals data dimension i for every
\* i; a violation is rejected before any output is allocated.
C8_PositionalShapeContract ==
    (IsLossKernel /\ kernel.pc # "start") =>
        /\ ~PositionalContract(DataShape, kernel.label_shape) => ShapeRejected
        /\ ShapeRejected => ~OutputsAllocated

\* C8 amended: SoftmaxCrossEntropyLossGrad accepts a pair only if the label
\* dimensions match positionally, SoftmaxCrossEntropyLoss only if label
\* dimension 0 equals logit dimension 0 and label dimension i equals logit
\* dimension i + 1 for i >= 1 (axis 1 of the logits is the class axis); in
\* both the label rank is one less than the data rank, and a violation is
\* rejected before any output is allocated.
C8_ShapeContract ==
    (IsLossKernel /\ kernel.pc # "start") =>
        /\ IF IsLoss
           THEN ~ClassAxisContract(DataShape, kernel.label_shape) => ShapeRejected
           ELSE ~PositionalContract(DataShape, kernel.label_shape) => ShapeRejected
        /\ ShapeRejected => ~OutputsAllocated

\* the forward kernel has rejected labels of the right rank whose trailing dimension differs
C8_Witness ==
    /\ IsLoss
    /\ ShapeRejected
    /\ ~OutputsAllocated
    /\ Len(kernel.logit_shape) = Len(kernel.label_shape) + 1
    /\ Len(kernel.label_shape) >= 2
    /\ kernel.label_shape[1] = kernel.logit_shape[1]

\* every read of the per-sample loop was inside its buffer
SampleReadsInRange == kernel.oob \cap {"label_data", "log_prob_data", "weight_data"} = {}

\* every read of the whole invocation was inside its shape or buffer
EveryReadInRange == kernel.oob \subseteq {"loss_sample"}

\* -log_prob[i, label[i]] and weight[label[i]] of sample i, counted from 1
SampleLogProb(i) == kernel.log_prob_data[(i - 1) * kernel.d + kernel.label_data[i] + 1]

SampleWeight(i) == IF kernel.has_weight THEN kernel.weight_data[kernel.label_data[i] + 1] ELSE 1

\* C9: with reduction none the loss output of an accepted input has as many
\* elements as the per-sample loop has samples, element i is the negative
\* log-probability of the labelled class of sample i times the class weight,
\* and no per-sample loss is written outside the loss output.
C9_ReductionNoneOneLossPerSample ==
    (IsLoss /\ kernel.reduction = "none" /\ kernel.pc \in {"reduce", "done", "crashed"} /\ EveryReadInRange) =>
        /\ Len(kernel.loss[1].data) = kernel.n
        /\ "loss_sample" \notin kernel.oob
        /\ \A i \in 1..kernel.n :
            kernel.loss[1].data[i] = Quotient((0 - SampleLogProb(i)) * SampleWeight(i), 1)

WeightedLossSum == SumSeq([i \in 1..kernel.n |-> (0 - SampleLogProb(i)) * SampleWeight(i)])

AppliedWeightSum == SumSeq([i \in 1..kernel.n |-> SampleWeight(i)])

\* C10: when every label is a class index, the scalar loss of a weighted mean
\* is the sum of the weighted per-sample losses divided by the sum of the
\* weights applied, of a sum it is that numerator undivided, and of an
\* unweighted mean it is the sum of the per-sample losses divided by n.
C10_WeightedMeanDividesByWeightSum ==
    (IsLoss /\ kernel.pc = "done" /\ kernel.reduction # "none" /\ SampleReadsInRange) =>
        kernel.loss[1].data =
            <<Quotient(WeightedLossSum,
                       IF kernel.reduction = "sum" THEN 1
                       ELSE IF kernel.has_weight THEN AppliedWeightSum ELSE kernel.n)>>

\* a weighted mean over several samples whose weights do not add up to their number
C10_Witness ==
    /\ IsLoss
    /\ kernel.pc = "done"
    /\ kernel.reduction = "mean"
    /\ kernel.has_weight
    /\ SampleReadsInRange
    /\ kernel.n >= 2
    /\ AppliedWeightSum # kernel.n
    /\ WeightedLossSum # 0
    /\ kernel.loss[1].data = <<Quotient(WeightedLossSum, AppliedWeightSum)>>

(***************************************************************************)
(* The round trip.                                                         *)
(***************************************************************************)
\* the model the test is run on
SourceModel == files[onnx_file].graph

\* a valid graph: every declared NodeArg has a supported type descriptor, and
\* every NodeArg and initializer name is declared once
ValidModel ==
    /\ onnx_file \in DOMAIN files
    /\ \A a \in Range(DeclaredArgs(SourceModel)) : SupportedTypeProto(a.type)
    /\ DistinctArgs(DeclaredArgs(SourceModel))
    /\ DistinctArgs(SourceModel.initializers)

Comparing == pc \in {"compare", "initializers", "inputs", "nodes", "done"}

\* C1: for every valid graph with its initializers, saving it during
\* Initialize of the first session and loading and initializing the saved
\* file in a second session never fails, and no step of
\* CompareGraphAndSessionState on the two sessions reports a mismatch.
C1_RoundTrip ==
    ValidModel =>
        /\ failures = {}
        /\ pc # "returned"
        /\ Comparing =>
            /\ session_object_1.state = "Initialized"
            /\ session_object_2.state = "Initialized"
            /\ ort_file \in DOMAIN files

\* the checker has gone through a saved and reloaded model of two initializers
C1_Witness ==
    /\ ValidModel
    /\ pc = "done"
    /\ ~HasFailure
    /\ Len(SourceModel.initializers) = 2
    /\ Cardinality(DOMAIN i2) = 2
    /\ ort_file \in DOMAIN files
    /\ compared >= 5

\* the kernel is one of the two gradient kernels of the backward scaling
IsUnweightedGrad ==
    \/ kernel.op = "SoftmaxCrossEntropyGrad"
    \/ kernel.op = "SoftmaxCrossEntropyLossGrad" /\ ~kernel.has_weight

\* the label indicator of element k of d_logit, counted from 1
LabelIndicator(k) ==
    IF kernel.op = "SoftmaxCrossEntropyGrad" THEN kernel.label_data[k]
    ELSE IF kernel.label_data[((k - 1) \div kernel.d) + 1] = (k - 1) % kernel.d THEN 1 ELSE 0

\* C11: in SoftmaxCrossEntropyGrad and in the unweighted
\* SoftmaxCrossEntropyLossGrad, under every reduction, the scale is assigned
\* before it is used and each element of d_logit is (exp(log_prob) minus the
\* label indicator) times dY / N under mean and times dY otherwise.
C11_BackwardScaling ==
    (IsUnweightedGrad /\ kernel.pc = "done") =>
        /\ "dY_scaled" \notin kernel.oob
        /\ \A k \in 1..Len(kernel.d_logit[1].data) :
            kernel.d_logit[1].data[k] =
                Quotient((Exp(kernel.log_prob_data[k]) - One * LabelIndicator(k)) * kernel.dY,
                         IF kernel.reduction = "mean" THEN kernel.n ELSE 1)


(***************************************************************************)
(* The lifecycle of the sessions of the test.                              *)
(***************************************************************************)
\* the calls made on the session of calls[i] before calls[i]
EarlierCalls(i) == {j \in 1..(i - 1) : calls[j].session = calls[i].session}

UsesInitializedSession == {"Run", "output_verifier", "CompareGraphAndSessionState"}

\* C12: in RunOrtModel and in SaveAndCompareModels, on every session, Initialize
\* is invoked only after Load has succeeded on that session; Run, the output
\* verifier and CompareGraphAndSessionState only after Initialize has succeeded
\* on it; and after a failed Load or Initialize nothing more is invoked on it.
C12_LifecycleOrdering ==
    \A i \in 1..Len(calls) :
        /\ \A j \in EarlierCalls(i) : calls[j].ok
        /\ calls[i].op = "Initialize" =>
                \E j \in EarlierCalls(i) : calls[j].op = "Load" /\ calls[j].ok
        /\ calls[i].op \in UsesInitializedSession =>
                \E j \in EarlierCalls(i) : calls[j].op = "Initialize" /\ calls[j].ok

\* both functions have returned: the session of SaveAndCompareModels was loaded
\* and failed to initialize, and the session of RunOrtModel was run
C12_Witness ==
    /\ pc = "run_returned"
    /\ \E i \in 1..Len(calls) : calls[i].op = "Initialize" /\ ~calls[i].ok
    /\ \E i \in 1..Len(calls) : calls[i].op = "Run" /\ calls[i].ok


(***************************************************************************)
(* The flattening of the logits and the reads of the forward kernel.       *)
(***************************************************************************)
\* the forward kernel has accepted the shapes and has set n, d and the buffer
Flattened == IsLoss /\ kernel.pc \notin {"start", "enforce_failed", "flatten", "returned"}

\* C13: for every pair of shapes that passes the shape checks of
\* SoftmaxCrossEntropyLoss::Compute, of any logit rank from 1 on, n * d is the
\* number of logit elements, and the buffer the softmax reads (the transposed
\* one for a rank above 2) has exactly that many elements.
C13_FlatteningCoversLogits ==
    Flattened =>
        /\ kernel.n * kernel.d = Size(kernel.logit_shape)
        /\ kernel.nd = Size(kernel.logit_shape)
        /\ Len(kernel.logit_data) = Size(kernel.logit_shape)


\* the reads the claim of index safety is about
IndexedReads == {"label_data", "log_prob_data", "weight_data", "label_shape[0]"}

\* C14: for every input the forward kernel accepts, each label is a class
\* index below d, i * d + label[i] lies inside the log-probability buffer, and
\* label[i] is below the weight length when weights are supplied; and
\* label_shape[0] is read only when the label rank is at least 1.
C14_IndexSafety ==
    IsLoss =>
        /\ "label_shape[0]" \notin kernel.oob
        /\ kernel.pc \in {"reduce", "done", "crashed"} =>
                /\ kernel.oob \cap IndexedReads = {}
                /\ \A i \in 1..kernel.n : kernel.label_data[i] \in 0..(kernel.d - 1)


(***************************************************************************)
(* The body of the test after SaveAndCompareModels has returned.           *)
(***************************************************************************)
\* the failures recorded by RunOrtModel and by the output verifier
RunOrtModelFailures == {"RunOrtModel.Load", "RunOrtModel.Initialize", "RunOrtModel.Run", "output_verifier"}

\* an assertion has failed inside SaveAndCompareModels
SaveAndCompareModelsFailed == failures \ RunOrtModelFailures # {}

\* C15: RunOrtModel loads, initializes and runs the .ort file only if the
\* preceding SaveAndCompareModels completed with no failed assertion: after a
\* failure inside SaveAndCompareModels nothing is invoked on the session of
\* RunOrtModel.
C15_TestFailFast ==
    SaveAndCompareModelsFailed =>
        \A i \in 1..Len(calls) : calls[i].session # "RunOrtModel.session_object"

====
